---- MODULE Spec2Model ----
(***************************************************************************)
(* Model of the weather collector (src/src/lambdas/weather_collector/      *)
(* handler.py): the aggregation and quality-score functions and the        *)
(* collection cycle of lambda_handler.                                     *)
(*                                                                         *)
(* Python values are tagged so that values of different Python types can   *)
(* be compared: None, numbers, strings, lists; a dict is a function from   *)
(* its keys to tagged values.  Num(n) is the float nearest to n/1000       *)
(* (24.005 is Num(24005)); the arithmetic on it is floating point.         *)
(***************************************************************************)
EXTENDS Integers, Sequences, FiniteSets, TLC

VARIABLES
    data_points,     \* argument list of the function calls of the unit harness
    result,          \* what aggregate_weather_data(data_points) returned
    score,           \* what calculate_data_quality_score(data_points) returned
    fpc,             \* position of the unit harness
    result_again,    \* what a second aggregate_weather_data(data_points) returned
    score_again,     \* what a second calculate_data_quality_score(data_points) returned
    now,             \* the clock
    table,           \* the items of the DynamoDB table
    secret,          \* the API keys held in Secrets Manager (configuration)
    pc,              \* position of the collector's lambda_handler
    api_keys,        \* lambda_handler: api_keys
    clients,         \* lambda_handler: clients, by api_name
    next_client,     \* lambda_handler: position of the fetch loop in clients
    all_data,        \* lambda_handler: all_data
    aggregated_data, \* lambda_handler: aggregated_data
    quality_score,   \* lambda_handler: quality_score
    exc,             \* the exception on its way to lambda_handler's except clause
    response,        \* what the last invocation of lambda_handler returned
    fetched,         \* history: fetch_data calls per adapter in this invocation
    attempts,        \* history: HTTP attempts per adapter in this invocation
    answered,        \* history: the adapters whose provider answered well
    calls,           \* history: aggregate, score and put_item calls in this invocation
    table_before,    \* history: the table when this invocation started
    cycles,          \* history: invocations started
    api_event,       \* API: the event of the last request
    api_response,    \* API: what lambda_handler returned for it, or that it raised
    hist_hours,      \* API history: the hours get_historical_weather was called with
    store_reply,     \* API history: what the table's query did in the last request
    seen_table,      \* API history: the table at the last request
    asked_at,        \* API history: the clock at the last request
    seen_response    \* API history: what the collector had last returned at the last request

fvars == <<data_points, result, score, fpc, result_again, score_again>>

cvars ==
    <<now, table, secret, pc, api_keys, clients, next_client, all_data, aggregated_data,
      quality_score, exc, response, fetched, answered, calls, table_before,
      cycles, attempts>>

avars ==
    <<api_event, api_response, hist_hours, store_reply, seen_table, asked_at, seen_response>>

vars == <<fvars, cvars, avars>>

----------------------------------------------------------------------------
(* Python values *)

None == [none |-> TRUE]
Num(n) == [num |-> n]
Cnt(n) == [cnt |-> n]
Str(s) == [str |-> s]
Lst(q) == [list |-> q]
Iso(t) == [iso |-> t]
EmptyDict == [k \in {} |-> None]
NotCalled == [notcalled |-> TRUE]
Bool(b) == [bool |-> b]

\* dict.get(key): the value, None for a key the dict does not carry
Get(d, k) == IF k \in DOMAIN d THEN d[k] ELSE None

\* truth value of a Python object: None, 0, "" and {} are false
Truthy(v) ==
    /\ v # None /\ v # Num(0) /\ v # Cnt(0) /\ v # Str("") /\ v # EmptyDict
    /\ v # [dec |-> 0]

\* the integer nearest to n/d (d > 0), a tie going to the even one
RoundHalfEven(n, d) ==
    LET fl == n \div d
        r  == n - fl * d
    IN  IF 2 * r < d THEN fl
        ELSE IF 2 * r > d THEN fl + 1
        ELSE IF fl % 2 = 0 THEN fl ELSE fl + 1

----------------------------------------------------------------------------
(***************************************************************************)
(* Python floats.  A float is [m, e] with value m * 2^e, where m = 0 or    *)
(* 2^(SignificandBits-1) <= |m| < 2^SignificandBits, and every operation   *)
(* returns the float nearest to the exact result, ties to even, as IEEE    *)
(* 754 does.  The significand is 13 bits in place of the 53 of binary64:   *)
(* the binary expansion of a multiple of 0.005 has period 20, so 13 bits   *)
(* cut it at the same place of its period as 53 do.                        *)
(***************************************************************************)

SignificandBits == 13

Abs(n) == IF n < 0 THEN -n ELSE n

Zero == [m |-> 0, e |-> 0]

\* <<a2, d2, s>> with a2/d2 = (a/d) * 2^s and a2 \div d2 of SignificandBits bits
RECURSIVE Scale(_, _, _)
Scale(a, d, s) ==
    IF a \div d >= 2^SignificandBits THEN Scale(a, 2 * d, s - 1)
    ELSE IF a \div d < 2^(SignificandBits - 1) THEN Scale(2 * a, d, s + 1)
    ELSE <<a, d, s>>

\* the float of significand m and exponent e, m of SignificandBits bits or
\* the power of two just above them
Pack(m, e) ==
    IF Abs(m) = 2^SignificandBits THEN [m |-> m \div 2, e |-> e + 1]
    ELSE [m |-> m, e |-> e]

\* the float nearest to sg * (sc[1]/sc[2]) * 2^(e - sc[3]) for a scaled sc
Rounded(sc, sg, e) == Pack(sg * RoundHalfEven(sc[1], sc[2]), e - sc[3])

\* the float nearest to (n/d) * 2^e
Nearest(n, d, e) ==
    IF n = 0 THEN Zero
    ELSE Rounded(Scale(Abs(n), d, 0), IF n < 0 THEN -1 ELSE 1, e)

\* the float that Num(n), the decimal n/1000 of a payload, is held as
FloatOf(n) == Nearest(n, 1000, 0)

\* a + b; an operand below a quarter of the other's last place changes nothing
FloatAdd(a, b) ==
    IF a.m = 0 THEN b
    ELSE IF b.m = 0 THEN a
    ELSE IF a.e - b.e > SignificandBits + 1 THEN a
    ELSE IF b.e - a.e > SignificandBits + 1 THEN b
    ELSE LET e == IF a.e < b.e THEN a.e ELSE b.e
         IN  Nearest(a.m * 2^(a.e - e) + b.m * 2^(b.e - e), 1, e)

\* a / n for an int n > 0
FloatDiv(a, n) == Nearest(a.m, n, a.e)

\* a <= b
FloatLeq(a, b) ==
    IF a.m <= 0 /\ b.m >= 0 THEN TRUE
    ELSE IF a.m >= 0 /\ b.m <= 0 THEN FALSE
    ELSE IF a.m > 0 THEN a.e < b.e \/ (a.e = b.e /\ a.m <= b.m)
    ELSE a.e > b.e \/ (a.e = b.e /\ a.m <= b.m)

\* sum(q): the additions are made from the left, each one rounded
RECURSIVE SumSeq(_)
SumSeq(q) ==
    IF q = <<>> THEN Zero
    ELSE FloatAdd(SumSeq(SubSeq(q, 1, Len(q) - 1)), q[Len(q)])

MinSeq(q) == CHOOSE m \in {q[i] : i \in DOMAIN q} : \A i \in DOMAIN q : FloatLeq(m, q[i])

MaxSeq(q) == CHOOSE m \in {q[i] : i \in DOMAIN q} : \A i \in DOMAIN q : FloatLeq(q[i], m)

\* round(a, 2), in thousandths: the multiple of 0.01 nearest to the float's value
RoundTo2(a) ==
    10 * (IF a.e >= 0 THEN 100 * a.m * 2^(a.e)
          ELSE IF -a.e >= 30 THEN 0
          ELSE RoundHalfEven(100 * a.m, 2^(-a.e)))

----------------------------------------------------------------------------
(* calculate_data_quality_score *)

\* faulty variant: every key counts as valid, None-valued or not
ValidFieldsAll(point) == Cardinality(DOMAIN point)

\* sum(1 for v in point.values() if v is not None)
ValidFields(point) == Cardinality({k \in DOMAIN point : point[k] # None})

\* faulty variant: the denominator is the size of a fixed five-key schema
TotalFieldsSchema(point) == 5

\* len(point)
TotalFields(point) == Cardinality(DOMAIN point)

\* total_score after the loop: the fractions valid_fields / total_fields of the
\* truthy points, added in the order of the list
RECURSIVE TotalScore(_)
TotalScore(points) ==
    IF points = <<>> THEN Zero
    ELSE LET rest  == TotalScore(SubSeq(points, 1, Len(points) - 1))
             point == points[Len(points)]
         IN  IF Truthy(point)
             THEN FloatAdd(rest, Nearest(ValidFields(point), TotalFields(point), 0))
             ELSE rest

\* faulty variant: the mean is taken over the truthy points alone
calculate_data_quality_score_skipping(points) ==
    IF SelectSeq(points, Truthy) = <<>> THEN Num(0)
    ELSE Num(RoundTo2(FloatDiv(TotalScore(points), Len(SelectSeq(points, Truthy)))))

calculate_data_quality_score(points) ==
    IF points = <<>> THEN Num(0)
    ELSE Num(RoundTo2(FloatDiv(TotalScore(points), Len(points))))

----------------------------------------------------------------------------
(* aggregate_weather_data *)

NumericFields ==
    <<"temperature", "feels_like", "humidity", "pressure", "wind_speed",
      "wind_direction", "clouds", "visibility", "uv_index">>

\* the keys of Counter(q), in insertion order: each value at its first occurrence
CounterKeys(q) ==
    LET first == {i \in DOMAIN q : \A j \in 1..(i - 1) : q[j] # q[i]}
        F[i \in 0..Len(q)] ==
            IF i = 0 THEN <<>>
            ELSE IF i \in first THEN Append(F[i - 1], q[i]) ELSE F[i - 1]
    IN  F[Len(q)]

CounterCount(q, w) == Cardinality({i \in DOMAIN q : q[i] = w})

\* [d for d in data_points if d is not None]
ValidData(points) == SelectSeq(points, LAMBDA d : d # None)

\* faulty variant: each source id is listed once
SourcesDedup(valid_data) ==
    CounterKeys([i \in DOMAIN valid_data |-> Get(valid_data[i], "source")])

\* aggregated["sources"] after the collecting loop
Sources(valid_data) == [i \in DOMAIN valid_data |-> Get(valid_data[i], "source")]

\* faulty variant: "if value:" in place of "if value is not None", which drops a 0
FieldValuesTruthy(valid_data, field) ==
    LET got  == [i \in DOMAIN valid_data |-> Get(valid_data[i], field)]
        kept == SelectSeq(got, LAMBDA v : Truthy(v))
    IN  [i \in DOMAIN kept |-> FloatOf(kept[i].num)]

\* aggregated[field] after the collecting loop: the values that are not None
FieldValues(valid_data, field) ==
    LET got  == [i \in DOMAIN valid_data |-> Get(valid_data[i], field)]
        kept == SelectSeq(got, LAMBDA v : v # None)
    IN  [i \in DOMAIN kept |-> FloatOf(kept[i].num)]

\* the four derived keys of one field, none when no value was collected
FieldStats(values, field) ==
    IF values = <<>> THEN EmptyDict
    ELSE (field \o "_avg"   :> Num(RoundTo2(FloatDiv(SumSeq(values), Len(values)))))
      @@ (field \o "_min"   :> Num(RoundTo2(MinSeq(values))))
      @@ (field \o "_max"   :> Num(RoundTo2(MaxSeq(values))))
      @@ (field \o "_count" :> Cnt(Len(values)))

RECURSIVE AllStats(_, _)
AllStats(valid_data, n) ==
    IF n = 0 THEN EmptyDict
    ELSE AllStats(valid_data, n - 1)
      @@ FieldStats(FieldValues(valid_data, NumericFields[n]), NumericFields[n])

\* [d.get("weather") for d in valid_data if d.get("weather")]
WeatherDescriptions(valid_data) ==
    SelectSeq([i \in DOMAIN valid_data |-> Get(valid_data[i], "weather")],
              LAMBDA w : Truthy(w))

\* faulty variant: the last item of maximal count is kept
MostCommon1Last(q) ==
    LET keys == CounterKeys(q)
        best == CHOOSE i \in DOMAIN keys :
                    /\ \A j \in DOMAIN keys :
                           CounterCount(q, keys[j]) <= CounterCount(q, keys[i])
                    /\ \A j \in (i + 1)..Len(keys) :
                           CounterCount(q, keys[j]) < CounterCount(q, keys[i])
    IN  keys[best]

\* faulty variant: the value that reaches the maximal count first while q is scanned
MostCommon1FirstToReach(q) ==
    LET keys == CounterKeys(q)
        last(w) == CHOOSE i \in DOMAIN q : q[i] = w /\ \A j \in (i + 1)..Len(q) : q[j] # w
    IN  CHOOSE w \in {keys[i] : i \in DOMAIN keys} :
            \A v \in {keys[i] : i \in DOMAIN keys} \ {w} :
                \/ CounterCount(q, v) < CounterCount(q, w)
                \/ CounterCount(q, v) = CounterCount(q, w) /\ last(w) < last(v)

\* Counter(q).most_common(1)[0][0]: max() over the items in insertion order,
\* which keeps the first item of maximal count
MostCommon1(q) ==
    LET keys == CounterKeys(q)
        best == CHOOSE i \in DOMAIN keys :
                    /\ \A j \in DOMAIN keys :
                           CounterCount(q, keys[j]) <= CounterCount(q, keys[i])
                    /\ \A j \in 1..(i - 1) :
                           CounterCount(q, keys[j]) < CounterCount(q, keys[i])
    IN  keys[best]

Consensus(valid_data) ==
    LET weather_descriptions == WeatherDescriptions(valid_data)
    IN  IF weather_descriptions = <<>> THEN EmptyDict
        ELSE [weather_consensus |-> MostCommon1(weather_descriptions)]

\* faulty variant: each Reading kept in raw_data is stamped with the clock reading
BuildResultStamping(valid_data, t) ==
    [sources   |-> Lst(Sources(valid_data)),
     timestamp |-> Iso(t),
     raw_data  |-> Lst([i \in DOMAIN valid_data |->
                           valid_data[i] @@ ("aggregated_at" :> Iso(t))])]
    @@ AllStats(valid_data, Len(NumericFields))
    @@ Consensus(valid_data)

\* the record built from the non-empty valid_data; t is the clock reading of
\* datetime.now(timezone.utc)
BuildResult(valid_data, t) ==
    [sources   |-> Lst(Sources(valid_data)),
     timestamp |-> Iso(t),
     raw_data  |-> Lst(valid_data)]
    @@ AllStats(valid_data, Len(NumericFields))
    @@ Consensus(valid_data)

\* faulty variant: no "if not valid_data" check
AggregateValidNoCheck(valid_data, t) == BuildResult(valid_data, t)

\* the function from "if not valid_data" on
AggregateValid(valid_data, t) ==
    IF valid_data = <<>> THEN EmptyDict ELSE BuildResult(valid_data, t)

aggregate_weather_data(points, t) ==
    IF points = <<>> THEN EmptyDict ELSE AggregateValid(ValidData(points), t)

----------------------------------------------------------------------------
(* The collection cycle: lambda_handler of the collector *)

LOCATION == Str("lewisville-tx")

\* the clients in the order lambda_handler appends them
AdapterNames == <<"openweathermap", "weatherapi", "visualcrossing", "openmeteo", "tomorrow_io">>

Adapters == {AdapterNames[i] : i \in DOMAIN AdapterNames}

\* the adapters that are given an API key
KeyedAdapters == Adapters \ {"openmeteo"}

\* the secret: API keys for none, for one or for all of the keyed adapters
Secrets ==
    {[a \in S |-> Str("key")] :
        S \in {T \in SUBSET KeyedAdapters : Cardinality(T) \in {0, 1, Cardinality(KeyedAdapters)}}}

\* what Secrets Manager answers: the secret, a ClientError, or a failure that
\* is no ClientError (no endpoint, a secret that is not JSON)
SecretReplies == {"SecretString", "ClientError", "Exception"}

Return(v) == [ret |-> v]
Raise(e) == [raise |-> e]
Raised(r) == "raise" \in DOMAIN r

get_api_keys(reply, secret_value) ==
    IF reply = "SecretString" THEN Return(secret_value)
    ELSE IF reply = "ClientError" THEN Return(EmptyDict)
    ELSE Raise("secrets")

\* clients after the five "if api_keys.get(...)" blocks
InitClients(keys) ==
    SelectSeq(AdapterNames, LAMBDA a : a = "openmeteo" \/ Truthy(Get(keys, a)))

\* what the provider's HTTP endpoint does, after the session's retries
HttpReplies == {"ok", "timeout", "connection_error", "http_error", "malformed"}

\* the Reading each adapter builds from a well-formed payload
Reading(a) ==
    IF a = "openweathermap" THEN
        [source |-> Str(a), temperature |-> Num(25500), feels_like |-> Num(26000),
         humidity |-> Num(65000), pressure |-> Num(1013000), wind_speed |-> Num(3500),
         wind_direction |-> None, clouds |-> Num(40000), weather |-> Str("Clouds"),
         description |-> Str("scattered clouds"), visibility |-> Num(10000000),
         timestamp |-> Cnt(1700000000)]
    ELSE IF a = "weatherapi" THEN
        [source |-> Str(a), temperature |-> Num(24800), feels_like |-> Num(25200),
         humidity |-> Num(68000), pressure |-> Num(1012000), wind_speed |-> Num(3194),
         wind_direction |-> Num(175000), clouds |-> Num(50000),
         weather |-> Str("Partly cloudy"), description |-> Str("Partly cloudy"),
         visibility |-> Num(10000000), uv_index |-> Num(5000), air_quality |-> EmptyDict]
    ELSE IF a = "visualcrossing" THEN
        [source |-> Str(a), temperature |-> Num(25000), feels_like |-> Num(25000),
         humidity |-> Num(66000), pressure |-> None, wind_speed |-> Num(0),
         wind_direction |-> None, clouds |-> Num(45000),
         weather |-> Str("Partly cloudy"), description |-> Str("Partly cloudy"),
         visibility |-> Num(0), uv_index |-> None, solar_radiation |-> None]
    ELSE IF a = "openmeteo" THEN
        [source |-> Str(a), temperature |-> Num(25200), feels_like |-> Num(25800),
         humidity |-> Num(64000), pressure |-> Num(1013500), wind_speed |-> Num(12600),
         wind_direction |-> Num(180000), clouds |-> Num(40000),
         weather |-> Str("Partly cloudy"), description |-> Str("Partly cloudy"),
         precipitation |-> Num(0), weather_code |-> Cnt(2)]
    ELSE
        [source |-> Str(a), temperature |-> Num(24900), feels_like |-> None,
         humidity |-> Num(67000), pressure |-> Num(1012500), wind_speed |-> Num(3600),
         wind_direction |-> Num(178000), clouds |-> Num(42000),
         weather |-> Str("Partly Cloudy"), description |-> Str("Partly Cloudy"),
         visibility |-> Num(16000), uv_index |-> Num(6000), precipitation_intensity |-> Num(0)]

\* fetch_data of the adapter a: every failure is caught inside and gives None
fetch_data(a, reply) == IF reply = "ok" THEN Reading(a) ELSE None

\* all_data after "if data: all_data.append(data)"
Collect(data_list, data) == IF Truthy(data) THEN Append(data_list, data) ELSE data_list

Dec(n) == [dec |-> n]

Tags == {"none", "num", "cnt", "str", "list", "iso", "dec", "bool", "notcalled"}

\* convert_to_dynamodb_format: floats become Decimal, inside dicts and lists too
RECURSIVE convert_value(_)
convert_value(value) ==
    IF DOMAIN value = {"num"} THEN Dec(value.num)
    ELSE IF DOMAIN value = {"list"}
        THEN Lst([i \in DOMAIN value.list |-> convert_value(value.list[i])])
    ELSE IF DOMAIN value \cap Tags = {}
        THEN [k \in DOMAIN value |-> convert_value(value[k])]
    ELSE value

TTL_SECONDS == 2592000

\* faulty variant: the expiry is counted from the timestamp of the record
ItemExpiringFromRecord(weather_data, q, t) ==
    [location           |-> LOCATION,
     timestamp          |-> Iso(t),
     weather_data       |-> convert_value(weather_data),
     data_quality_score |-> Dec(q.num),
     ttl                |-> weather_data["timestamp"].iso + TTL_SECONDS]

\* the item store_in_dynamodb builds; t is the clock reading
Item(weather_data, q, t) ==
    [location           |-> LOCATION,
     timestamp          |-> Iso(t),
     weather_data       |-> convert_value(weather_data),
     data_quality_score |-> Dec(q.num),
     ttl                |-> t + TTL_SECONDS]

\* table.put_item: an item with the same key (location, timestamp) is replaced
put_item(items, item) ==
    {i \in items : ~(i.location = item.location /\ i.timestamp = item.timestamp)}
    \cup {item}

MaxCycles == 1
MaxTime == 1

\* the table before the first cycle of a behaviour: empty, or holding the item
\* of an earlier cycle in which Open-Meteo alone answered
InitialTables ==
    {{},
     {Item(aggregate_weather_data(<<Reading("openmeteo")>>, 0),
           calculate_data_quality_score(<<Reading("openmeteo")>>), 0)}}

NoCalls == [aggregate |-> 0, score |-> 0, put_item |-> 0]

\* no API request was made yet
NoRequest ==
    /\ api_event = NotCalled
    /\ api_response = NotCalled
    /\ hist_hours = NotCalled
    /\ store_reply = NotCalled
    /\ seen_table = {}
    /\ asked_at = 0
    /\ seen_response = NotCalled

Init ==
    /\ data_points = <<>>
    /\ result = NotCalled
    /\ score = NotCalled
    /\ fpc = "off"
    /\ result_again = NotCalled
    /\ score_again = NotCalled
    /\ now = 0
    /\ table \in InitialTables
    /\ secret \in Secrets
    /\ pc = "idle"
    /\ api_keys = EmptyDict
    /\ clients = <<>>
    /\ next_client = 1
    /\ all_data = <<>>
    /\ aggregated_data = NotCalled
    /\ quality_score = NotCalled
    /\ exc = ""
    /\ response = NotCalled
    /\ fetched = [a \in Adapters |-> 0]
    /\ attempts = [a \in Adapters |-> 0]
    /\ answered = {}
    /\ calls = NoCalls
    /\ table_before = table
    /\ cycles = 0
    /\ NoRequest

\* the scheduler invokes lambda_handler
Invoke ==
    /\ pc = "idle"
    /\ cycles < MaxCycles
    /\ pc' = "get_api_keys"
    /\ cycles' = cycles + 1
    /\ api_keys' = EmptyDict
    /\ clients' = <<>>
    /\ next_client' = 1
    /\ all_data' = <<>>
    /\ aggregated_data' = NotCalled
    /\ quality_score' = NotCalled
    /\ exc' = ""
    /\ response' = NotCalled
    /\ fetched' = [a \in Adapters |-> 0]
    /\ attempts' = [a \in Adapters |-> 0]
    /\ answered' = {}
    /\ calls' = NoCalls
    /\ table_before' = table
    /\ UNCHANGED <<fvars, avars, now, table, secret>>

\* faulty variant: an exception of get_api_keys leaves lambda_handler uncaught
GetApiKeysEscaping ==
    /\ pc = "get_api_keys"
    /\ \E reply \in SecretReplies :
        LET r == get_api_keys(reply, secret)
        IN  IF Raised(r)
            THEN /\ exc' = r.raise
                 /\ pc' = "raised"
                 /\ UNCHANGED <<api_keys, clients>>
            ELSE /\ api_keys' = r.ret
                 /\ clients' = InitClients(r.ret)
                 /\ pc' = "fetch"
                 /\ UNCHANGED exc
    /\ UNCHANGED <<fvars, avars, attempts, now, table, secret, next_client, all_data,
                   aggregated_data, quality_score, response, fetched, answered, calls,
                   table_before, cycles>>

GetApiKeys ==
    /\ pc = "get_api_keys"
    /\ \E reply \in SecretReplies :
        LET r == get_api_keys(reply, secret)
        IN  IF Raised(r)
            THEN /\ exc' = r.raise
                 /\ pc' = "except"
                 /\ UNCHANGED <<api_keys, clients>>
            ELSE /\ api_keys' = r.ret
                 /\ clients' = InitClients(r.ret)
                 /\ pc' = "fetch"
                 /\ UNCHANGED exc
    /\ UNCHANGED <<fvars, avars, attempts, now, table, secret, next_client, all_data, aggregated_data,
                   quality_score, response, fetched, answered, calls, table_before, cycles>>

\* faulty variant: a failing fetch_data raises instead of returning None, which ends
\* the loop
FetchDataAbort ==
    /\ pc = "fetch"
    /\ next_client <= Len(clients)
    /\ \E reply \in HttpReplies :
        IF reply = "ok"
        THEN /\ all_data' = Append(all_data, Reading(clients[next_client]))
             /\ answered' = answered \cup {clients[next_client]}
             /\ next_client' = next_client + 1
             /\ UNCHANGED <<pc, exc>>
        ELSE /\ exc' = reply
             /\ pc' = "except"
             /\ UNCHANGED <<all_data, answered, next_client>>
    /\ fetched' = [fetched EXCEPT ![clients[next_client]] = @ + 1]
    /\ UNCHANGED <<fvars, avars, attempts, now, table, secret, api_keys, clients, aggregated_data,
                   quality_score, response, calls, table_before, cycles>>

\* one pass of "for client in clients"
FetchData ==
    /\ pc = "fetch"
    /\ next_client <= Len(clients)
    /\ \E reply \in HttpReplies :
        /\ all_data' = Collect(all_data, fetch_data(clients[next_client], reply))
        /\ answered' = IF reply = "ok" THEN answered \cup {clients[next_client]}
                                       ELSE answered
    /\ fetched' = [fetched EXCEPT ![clients[next_client]] = @ + 1]
    /\ next_client' = next_client + 1
    /\ UNCHANGED <<fvars, avars, attempts, now, table, secret, pc, api_keys, clients, aggregated_data,
                   quality_score, exc, response, calls, table_before, cycles>>

\* faulty variant: no "if not all_data" check
AggregateNoCheck ==
    /\ pc = "fetch"
    /\ next_client > Len(clients)
    /\ aggregated_data' = aggregate_weather_data(all_data, now)
    /\ calls' = [calls EXCEPT !.aggregate = @ + 1]
    /\ pc' = "score"
    /\ UNCHANGED <<fvars, avars, attempts, now, table, secret, api_keys, clients, next_client, all_data,
                   quality_score, exc, response, fetched, answered, table_before,
                   cycles>>

\* "if not all_data: raise", then aggregate_weather_data(all_data)
Aggregate ==
    /\ pc = "fetch"
    /\ next_client > Len(clients)
    /\ IF all_data = <<>>
       THEN /\ exc' = "No weather data could be fetched from any API"
            /\ pc' = "except"
            /\ UNCHANGED <<aggregated_data, calls>>
       ELSE /\ aggregated_data' = aggregate_weather_data(all_data, now)
            /\ calls' = [calls EXCEPT !.aggregate = @ + 1]
            /\ pc' = "score"
            /\ UNCHANGED exc
    /\ UNCHANGED <<fvars, avars, attempts, now, table, secret, api_keys, clients, next_client, all_data,
                   quality_score, response, fetched, answered, table_before, cycles>>

Score ==
    /\ pc = "score"
    /\ quality_score' = calculate_data_quality_score(all_data)
    /\ calls' = [calls EXCEPT !.score = @ + 1]
    /\ pc' = "store"
    /\ UNCHANGED <<fvars, avars, attempts, now, table, secret, api_keys, clients, next_client, all_data,
                   aggregated_data, exc, response, fetched, answered, table_before, cycles>>

\* faulty variant: the record and the score are written as two items
StoreInDynamodbSplit ==
    /\ pc = "store"
    /\ \E written \in BOOLEAN :
        IF written
        THEN /\ table' = put_item(put_item(table, Item(aggregated_data, Num(0), now)),
                                  [location |-> LOCATION, timestamp |-> Iso(now + 1),
                                   data_quality_score |-> Dec(quality_score.num)])
             /\ pc' = "return"
             /\ UNCHANGED exc
        ELSE /\ exc' = "put_item"
             /\ pc' = "except"
             /\ UNCHANGED table
    /\ calls' = [calls EXCEPT !.put_item = @ + 2]
    /\ UNCHANGED <<fvars, avars, attempts, now, secret, api_keys, clients, next_client, all_data,
                   aggregated_data, quality_score, response, fetched, answered, table_before,
                   cycles>>

\* faulty variant: a failure of put_item is logged and not raised again
StoreInDynamodbSwallow ==
    /\ pc = "store"
    /\ \E written \in BOOLEAN :
        table' = IF written THEN put_item(table, Item(aggregated_data, quality_score, now))
                            ELSE table
    /\ calls' = [calls EXCEPT !.put_item = @ + 1]
    /\ pc' = "return"
    /\ UNCHANGED <<fvars, avars, attempts, now, secret, api_keys, clients, next_client, all_data,
                   aggregated_data, quality_score, exc, response, fetched, answered,
                   table_before, cycles>>

\* faulty variant: the key is the clock reading cut down to an even second
StoreInDynamodbCoarse ==
    /\ pc = "store"
    /\ \E written \in BOOLEAN :
        IF written
        THEN /\ table' = put_item(table, Item(aggregated_data, quality_score, 2 * (now \div 2)))
             /\ pc' = "return"
             /\ UNCHANGED exc
        ELSE /\ exc' = "put_item"
             /\ pc' = "except"
             /\ UNCHANGED table
    /\ calls' = [calls EXCEPT !.put_item = @ + 1]
    /\ UNCHANGED <<fvars, avars, attempts, now, secret, api_keys, clients, next_client, all_data,
                   aggregated_data, quality_score, response, fetched, answered, table_before,
                   cycles>>

\* faulty variant: a put_item that fails has written the item all the same
StoreInDynamodbHalfWritten ==
    /\ pc = "store"
    /\ \E written \in BOOLEAN :
        /\ table' = put_item(table, Item(aggregated_data, quality_score, now))
        /\ IF written
           THEN pc' = "return" /\ UNCHANGED exc
           ELSE exc' = "put_item" /\ pc' = "except"
    /\ calls' = [calls EXCEPT !.put_item = @ + 1]
    /\ UNCHANGED <<fvars, avars, attempts, now, secret, api_keys, clients, next_client, all_data,
                   aggregated_data, quality_score, response, fetched, answered, table_before,
                   cycles>>

\* store_in_dynamodb: the one put_item call writes the item, or fails and the
\* exception is raised again
StoreInDynamodb ==
    /\ pc = "store"
    /\ \E written \in BOOLEAN :
        IF written
        THEN /\ table' = put_item(table, Item(aggregated_data, quality_score, now))
             /\ pc' = "return"
             /\ UNCHANGED exc
        ELSE /\ exc' = "put_item"
             /\ pc' = "except"
             /\ UNCHANGED table
    /\ calls' = [calls EXCEPT !.put_item = @ + 1]
    /\ UNCHANGED <<fvars, avars, attempts, now, secret, api_keys, clients, next_client, all_data,
                   aggregated_data, quality_score, response, fetched, answered, table_before,
                   cycles>>

ReturnOk ==
    /\ pc = "return"
    /\ response' =
           [statusCode |-> 200,
            body |-> [message       |-> "Weather data collected successfully",
                      location      |-> LOCATION,
                      sources_count |-> Len(all_data),
                      quality_score |-> quality_score,
                      timestamp     |-> aggregated_data["timestamp"]]]
    /\ pc' = "idle"
    /\ UNCHANGED <<fvars, avars, attempts, now, table, secret, api_keys, clients, next_client, all_data,
                   aggregated_data, quality_score, exc, fetched, answered, calls, table_before,
                   cycles>>

\* lambda_handler's "except Exception"
ReturnError ==
    /\ pc = "except"
    /\ response' =
           [statusCode |-> 500,
            body |-> [error |-> "Failed to collect weather data", message |-> exc]]
    /\ pc' = "idle"
    /\ UNCHANGED <<fvars, avars, attempts, now, table, secret, api_keys, clients, next_client, all_data,
                   aggregated_data, quality_score, exc, fetched, answered, calls, table_before,
                   cycles>>

\* time passes between cycles and between aggregation and the store write
Tick ==
    /\ pc \in {"idle", "store"}
    /\ now < MaxTime
    /\ now' = now + 1
    /\ UNCHANGED <<fvars, avars, attempts, table, secret, pc, api_keys, clients, next_client, all_data,
                   aggregated_data, quality_score, exc, response, fetched, answered, calls,
                   table_before, cycles>>

Next ==
    \/ Invoke
    \/ GetApiKeys
    \/ FetchData
    \/ Aggregate
    \/ Score
    \/ StoreInDynamodb
    \/ ReturnOk
    \/ ReturnError
    \/ Tick

Spec == Init /\ [][Next]_vars

----------------------------------------------------------------------------
(* The cycle with the HTTP attempts of the session: fetch_data sends its GET
   through HTTP, whose adapter sends a failed request again *)

\* Retry(total=2): the requests sent again after the first
MAX_RETRIES == 2

\* what one HTTP attempt meets: the replies of HttpReplies, or a status of
\* status_forcelist (429, 500, 502, 503, 504)
AttemptOutcomes == HttpReplies \cup {"retryable_status"}

\* the failures that are no HTTP status; the adapter may send the request again
TransportFailures == {"timeout", "connection_error"}

\* what HTTP.get and raise_for_status leave fetch_data with when the attempt
\* is the last: a status of status_forcelist is an HTTP error
FinalReply(outcome) == IF outcome = "retryable_status" THEN "http_error" ELSE outcome

\* one HTTP attempt of the fetch_data call of the loop: the request is sent
\* again while retries are left, or fetch_data returns and the loop goes on
HttpAttempt ==
    /\ pc = "fetch"
    /\ next_client <= Len(clients)
    /\ attempts' = [attempts EXCEPT ![clients[next_client]] = @ + 1]
    /\ \E outcome \in AttemptOutcomes, again \in BOOLEAN :
        IF /\ attempts[clients[next_client]] < MAX_RETRIES
           /\ \/ outcome = "retryable_status"
              \/ outcome \in TransportFailures /\ again
        THEN UNCHANGED <<all_data, answered, fetched, next_client>>
        ELSE /\ all_data' =
                    Collect(all_data, fetch_data(clients[next_client], FinalReply(outcome)))
             /\ answered' = IF outcome = "ok" THEN answered \cup {clients[next_client]}
                                              ELSE answered
             /\ fetched' = [fetched EXCEPT ![clients[next_client]] = @ + 1]
             /\ next_client' = next_client + 1
    /\ UNCHANGED <<fvars, avars, now, table, secret, pc, api_keys, clients, aggregated_data,
                   quality_score, exc, response, calls, table_before, cycles>>

LiveInit == Init /\ Cardinality(DOMAIN secret) <= 1

LiveNext ==
    \/ Invoke
    \/ GetApiKeys
    \/ HttpAttempt
    \/ Aggregate
    \/ Score
    \/ StoreInDynamodb
    \/ ReturnOk
    \/ ReturnError
    \/ Tick

\* the steps of lambda_handler that wait for a service or hand the response back
HandlerStep ==
    \/ GetApiKeys
    \/ HttpAttempt
    \/ StoreInDynamodb
    \/ ReturnOk
    \/ ReturnError

\* the states where the aggregation, and the scoring, is the step to take
AggregateEnabled == pc = "fetch" /\ next_client > Len(clients)

ScoreEnabled == pc = "score"

\* the runtime runs an invocation on: every step of lambda_handler that can be
\* taken is taken.  The two computing steps have their weak fairness written
\* out, WF_vars(A) being []<>~ENABLED <<A>>_vars \/ []<><<A>>_vars
HandlerRuns ==
    /\ WF_vars(HandlerStep)
    /\ ([]<>~AggregateEnabled \/ []<><<Aggregate>>_vars)
    /\ ([]<>~ScoreEnabled \/ []<><<Score>>_vars)

LiveSpec == LiveInit /\ [][LiveNext]_vars /\ HandlerRuns

----------------------------------------------------------------------------
(* A series of cycles: the scheduler invokes lambda_handler, one cycle after
   the other, each later than the one before *)

MaxSeries == 2
MaxSeriesTime == 3

\* the scheduler invokes lambda_handler at a time after the last cycle
InvokeScheduled ==
    /\ pc = "idle"
    /\ cycles < MaxSeries
    /\ now' = now + 1
    /\ pc' = "get_api_keys"
    /\ cycles' = cycles + 1
    /\ api_keys' = EmptyDict
    /\ clients' = <<>>
    /\ next_client' = 1
    /\ all_data' = <<>>
    /\ aggregated_data' = NotCalled
    /\ quality_score' = NotCalled
    /\ exc' = ""
    /\ response' = NotCalled
    /\ fetched' = [a \in Adapters |-> 0]
    /\ attempts' = [a \in Adapters |-> 0]
    /\ answered' = {}
    /\ calls' = NoCalls
    /\ table_before' = table
    /\ UNCHANGED <<fvars, avars, table, secret>>

\* time passes between aggregation and the store write of a cycle
Elapse ==
    /\ pc = "store"
    /\ now < MaxSeriesTime
    /\ now' = now + 1
    /\ UNCHANGED <<fvars, avars, attempts, table, secret, pc, api_keys, clients, next_client, all_data,
                   aggregated_data, quality_score, exc, response, fetched, answered, calls,
                   table_before, cycles>>

SeriesInit == Init /\ secret = EmptyDict

SeriesNext ==
    \/ InvokeScheduled
    \/ GetApiKeys
    \/ FetchData
    \/ Aggregate
    \/ Score
    \/ StoreInDynamodb
    \/ ReturnOk
    \/ ReturnError
    \/ Elapse

SeriesSpec == SeriesInit /\ [][SeriesNext]_vars

----------------------------------------------------------------------------
(* Unit harness: the two functions applied to a bounded set of lists *)

MaxPoints == 3
MaxWeatherPoints == 4

SeqsUpTo(S, n) == UNION {[1..k -> S] : k \in 0..n}

Fields == {NumericFields[i] : i \in DOMAIN NumericFields}

NumVals == {None, Num(0), Num(45), Num(-1500)}

\* readings of source "a" that carry one numeric field, or none
NumericEntries(f) ==
    {[source |-> Str("a")]} \cup {("source" :> Str("a")) @@ (f :> v) : v \in NumVals}

WeatherEntries ==
    {[source |-> Str("a")]}
    \cup {[source |-> Str("a"), weather |-> w] :
             w \in {None, Str(""), Str("Cloudy"), Str("Rain")}}

SourceEntries ==
    {None, EmptyDict, [source |-> Str("a")], [source |-> Str("b")],
     [temperature |-> Num(24005)]}

\* readings carrying five keys, three keys and two keys
ReadingFull5 ==
    [source |-> Str("a"), temperature |-> Num(24005), humidity |-> Num(65000),
     pressure |-> Num(1013000), weather |-> Str("Clear")]

ReadingTwo5 ==
    [source |-> Str("a"), temperature |-> Num(24005), humidity |-> None,
     pressure |-> None, weather |-> None]

ReadingNone5 ==
    [source |-> None, temperature |-> None, humidity |-> None,
     pressure |-> None, weather |-> None]

ReadingTwo3 == [source |-> Str("a"), temperature |-> Num(24005), humidity |-> None]

ReadingTwo2 == [source |-> Str("a"), temperature |-> Num(24005)]

ScoreEntries ==
    {None, EmptyDict, ReadingFull5, ReadingTwo5, ReadingNone5, ReadingTwo3,
     ReadingTwo2}

FnInputs ==
    UNION {SeqsUpTo(NumericEntries(f), MaxPoints) : f \in Fields}
    \cup SeqsUpTo(WeatherEntries, MaxWeatherPoints)
    \cup SeqsUpTo(SourceEntries, MaxPoints)
    \cup SeqsUpTo(ScoreEntries, MaxPoints)

FnInit ==
    /\ data_points \in FnInputs
    /\ result = NotCalled
    /\ score = NotCalled
    /\ fpc = "aggregate"
    /\ result_again = NotCalled
    /\ score_again = NotCalled
    /\ now = 0
    /\ table = {}
    /\ secret = EmptyDict
    /\ pc = "off"
    /\ api_keys = EmptyDict
    /\ clients = <<>>
    /\ next_client = 1
    /\ all_data = <<>>
    /\ aggregated_data = NotCalled
    /\ quality_score = NotCalled
    /\ exc = ""
    /\ response = NotCalled
    /\ fetched = [a \in Adapters |-> 0]
    /\ attempts = [a \in Adapters |-> 0]
    /\ answered = {}
    /\ calls = NoCalls
    /\ table_before = {}
    /\ cycles = 0
    /\ NoRequest

CallAggregate ==
    /\ fpc = "aggregate"
    /\ result' = aggregate_weather_data(data_points, now)
    /\ fpc' = "score"
    /\ UNCHANGED <<data_points, score, result_again, score_again, cvars, avars>>

CallScore ==
    /\ fpc = "score"
    /\ score' = calculate_data_quality_score(data_points)
    /\ fpc' = "called"
    /\ UNCHANGED <<data_points, result, result_again, score_again, cvars, avars>>

\* the two functions are called once more on the same list, at once or later
CallAgain ==
    /\ fpc = "called"
    /\ \E later \in 0..MaxTime :
        /\ now' = now + later
        /\ result_again' = aggregate_weather_data(data_points, now + later)
    /\ score_again' = calculate_data_quality_score(data_points)
    /\ fpc' = "again"
    /\ UNCHANGED <<data_points, result, score, avars, attempts, table, secret, pc, api_keys, clients,
                   next_client, all_data, aggregated_data, quality_score, exc, response,
                   fetched, answered, calls, table_before, cycles>>

FnNext == CallAggregate \/ CallScore \/ CallAgain

FnSpec == FnInit /\ [][FnNext]_vars

----------------------------------------------------------------------------
(***************************************************************************)
(* The API: src/src/lambdas/weather_api/handler.py.  A response body is    *)
(* held as the JSON value that json.dumps writes.                          *)
(***************************************************************************)

CORS_ORIGIN == "*"

\* what table.query does: it answers, raises a ClientError, or fails otherwise
StoreReplies == {"Items", "ClientError", "Exception"}

\* dict.get(key, default)
GetOr(d, k, default) == IF k \in DOMAIN d THEN d[k] ELSE default

\* DecimalEncoder.default: a whole Decimal becomes an int, another one a float
DecimalEncoder(d) == IF d.dec % 1000 = 0 THEN Cnt(d.dec \div 1000) ELSE Num(d.dec)

\* json.dumps(body, cls=DecimalEncoder)
RECURSIVE json_dumps(_)
json_dumps(value) ==
    IF DOMAIN value = {"dec"} THEN DecimalEncoder(value)
    ELSE IF DOMAIN value = {"list"}
        THEN Lst([i \in DOMAIN value.list |-> json_dumps(value.list[i])])
    ELSE IF DOMAIN value \cap Tags = {}
        THEN [k \in DOMAIN value |-> json_dumps(value[k])]
    ELSE value

create_response(status_code, body) ==
    [statusCode |-> status_code,
     headers |->
         [ContentType  |-> "application/json",
          AllowOrigin  |-> CORS_ORIGIN,
          AllowHeaders |-> "Content-Type,X-Amz-Date,Authorization,X-Api-Key,X-Amz-Security-Token",
          AllowMethods |-> "GET,OPTIONS"],
     body |-> json_dumps(body)]

\* items in descending order of the sort key (ScanIndexForward=False).  The
\* sort key is the ISO string of a UTC instant, and the order of these strings
\* is the order of the instants.
RECURSIVE Descending(_)
Descending(items) ==
    IF items = {} THEN <<>>
    ELSE LET newest == CHOOSE i \in items :
                           \A j \in items : j.timestamp.iso <= i.timestamp.iso
         IN  <<newest>> \o Descending(items \ {newest})

\* the first n items of a result (Limit=n)
Limit(q, n) == SubSeq(q, 1, IF Len(q) < n THEN Len(q) ELSE n)

\* faulty variant: the oldest item (ScanIndexForward=True)
QueryOldest(items) ==
    LET q == Descending({i \in items : i.location = LOCATION})
    IN  IF q = <<>> THEN <<>> ELSE <<q[Len(q)]>>

\* response['Items'] of the query of get_current_weather and get_health_status
QueryLatest(items) == Limit(Descending({i \in items : i.location = LOCATION}), 1)

\* float(item.get('data_quality_score', 0))
ScoreOf(item) ==
    IF "data_quality_score" \in DOMAIN item THEN Num(item.data_quality_score.dec)
    ELSE Num(0)

\* value, min and max of a field of current_conditions
Condition(weather_data, field, unit) ==
    [value |-> Get(weather_data, field \o "_avg"),
     min   |-> Get(weather_data, field \o "_min"),
     max   |-> Get(weather_data, field \o "_max"),
     unit  |-> Str(unit)]

\* current_data of get_current_weather
CurrentData(item) ==
    LET weather_data == GetOr(item, "weather_data", EmptyDict)
    IN  [location |-> Get(item, "location"),
         timestamp |-> Get(item, "timestamp"),
         data_quality_score |-> ScoreOf(item),
         sources |-> GetOr(weather_data, "sources", Lst(<<>>)),
         current_conditions |->
             [temperature |-> Condition(weather_data, "temperature", "celsius"),
              feels_like  |-> Condition(weather_data, "feels_like", "celsius"),
              humidity    |-> Condition(weather_data, "humidity", "percent"),
              pressure    |-> Condition(weather_data, "pressure", "hPa"),
              wind |->
                  [speed     |-> Condition(weather_data, "wind_speed", "m/s"),
                   direction |-> [value |-> Get(weather_data, "wind_direction_avg"),
                                  unit  |-> Str("degrees")]],
              clouds      |-> Condition(weather_data, "clouds", "percent"),
              visibility  |-> Condition(weather_data, "visibility", "meters"),
              uv_index    |->
                  [value |-> Get(weather_data, "uv_index_avg"),
                   min   |-> Get(weather_data, "uv_index_min"),
                   max   |-> Get(weather_data, "uv_index_max")],
              weather     |-> GetOr(weather_data, "weather_consensus", Str("Unknown"))]]

\* faulty variant: a failed query is answered like an empty result
QueryFailedAsNotFound(reply, what) ==
    create_response(404, [error   |-> Str("No weather data found"),
                          message |-> Str("Failed to retrieve " \o what)])

\* the two except clauses of get_current_weather and get_historical_weather
QueryFailed(reply, what) ==
    IF reply = "ClientError"
    THEN create_response(500, [error   |-> Str("Database error"),
                               message |-> Str("Failed to retrieve " \o what)])
    ELSE create_response(500, [error   |-> Str("Internal server error"),
                               message |-> Str("exception")])

get_current_weather(reply, items) ==
    IF reply # "Items" THEN QueryFailed(reply, "weather data")
    ELSE IF QueryLatest(items) = <<>>
    THEN create_response(404,
             [error   |-> Str("No weather data found"),
              message |-> Str("No weather data available for the specified location")])
    ELSE create_response(200, CurrentData(QueryLatest(items)[1]))

\* round(n/d, 2) of Decimal arithmetic, n in thousandths: exact, a tie to even
Round2(n, d) == 10 * RoundHalfEven(n, d * 10)

RECURSIVE DecSum(_)
DecSum(q) == IF q = <<>> THEN 0 ELSE Head(q).dec + DecSum(Tail(q))

DecMin(q) == CHOOSE m \in {q[i] : i \in DOMAIN q} : \A i \in DOMAIN q : m.dec <= q[i].dec

DecMax(q) == CHOOSE m \in {q[i] : i \in DOMAIN q} : \A i \in DOMAIN q : m.dec >= q[i].dec

\* faulty variant: no lower bound
QueryUpTo(items, lo, hi) ==
    Descending({i \in items : i.location = LOCATION /\ i.timestamp.iso <= hi})

\* faulty variant: the lower bound is excluded
QueryBetweenExclusive(items, lo, hi) ==
    Descending({i \in items :
                   i.location = LOCATION /\ lo < i.timestamp.iso /\ i.timestamp.iso <= hi})

\* response['Items'] of the query of get_historical_weather: the items of the
\* location whose sort key is between the two bounds, both included
QueryBetween(items, lo, hi) ==
    Descending({i \in items :
                   i.location = LOCATION /\ lo <= i.timestamp.iso /\ i.timestamp.iso <= hi})

\* one entry of historical_data
HistoryEntry(item) ==
    LET weather_data == GetOr(item, "weather_data", EmptyDict)
    IN  [timestamp |-> Get(item, "timestamp"),
         data_quality_score |-> ScoreOf(item),
         temperature |-> Get(weather_data, "temperature_avg"),
         humidity |-> Get(weather_data, "humidity_avg"),
         pressure |-> Get(weather_data, "pressure_avg"),
         wind_speed |-> Get(weather_data, "wind_speed_avg"),
         clouds |-> Get(weather_data, "clouds_avg"),
         weather |-> Get(weather_data, "weather_consensus"),
         sources_count |-> Cnt(Len(GetOr(weather_data, "sources", Lst(<<>>)).list))]

\* [d[field] for d in historical_data if d.get(field)]
StatValues(historical_data, field) ==
    LET got == [i \in DOMAIN historical_data |-> historical_data[i][field]]
    IN  SelectSeq(got, LAMBDA v : Truthy(v))

\* avg, min and max of one field of statistics
FieldStatistics(values) ==
    IF values = <<>> THEN [avg |-> None, min |-> None, max |-> None]
    ELSE [avg |-> [dec |-> Round2(DecSum(values), Len(values))],
          min |-> DecMin(values),
          max |-> DecMax(values)]

Statistics(historical_data) ==
    [temperature |-> FieldStatistics(StatValues(historical_data, "temperature")),
     humidity    |-> FieldStatistics(StatValues(historical_data, "humidity")),
     pressure    |-> FieldStatistics(StatValues(historical_data, "pressure"))]

SECONDS_PER_HOUR == 3600

\* what the query of get_historical_weather does: a lower bound above the
\* upper one (hours < 0) is refused by the store with a ClientError
BetweenReply(reply, hours) == IF reply = "Items" /\ hours < 0 THEN "ClientError" ELSE reply

\* get_historical_weather(hours) called at time t
get_historical_weather(hours, reply, items, t) ==
    LET start_time == t - hours * SECONDS_PER_HOUR
        found == QueryBetween(items, start_time, t)
        historical_data == [i \in DOMAIN found |-> HistoryEntry(found[i])]
    IN  IF BetweenReply(reply, hours) # "Items"
        THEN QueryFailed(BetweenReply(reply, hours), "historical data")
        ELSE IF found = <<>>
        THEN create_response(404,
                 [error   |-> Str("No historical data found"),
                  message |-> Str("No weather data available for the past "
                                  \o ToString(hours) \o " hours")])
        ELSE create_response(200,
                 [location |-> LOCATION,
                  period |-> [start |-> Iso(start_time), end |-> Iso(t),
                              hours |-> Cnt(hours)],
                  data_points |-> Cnt(Len(historical_data)),
                  statistics |-> Statistics(historical_data),
                  history |-> Lst(historical_data)])

\* the five entries of available_sources, by id
AvailableSources ==
    Lst([i \in DOMAIN AdapterNames |-> [id |-> Str(AdapterNames[i])]])

get_data_sources ==
    create_response(200,
        [location |-> LOCATION,
         available_sources |-> AvailableSources,
         update_schedule |-> Str("Every 20 minutes"),
         data_retention |-> Str("30 days")])

FRESH_SECONDS == 1800

\* faulty variant: a record of exactly FRESH_SECONDS is fresh
get_health_status_inclusive(reply, items, t) ==
    IF reply # "Items"
    THEN create_response(503,
             [status |-> Str("unhealthy"), error |-> Str("exception"), timestamp |-> Iso(t)])
    ELSE LET found       == QueryLatest(items)
             last_update == IF found = <<>> THEN None ELSE Get(found[1], "timestamp")
             data_fresh  == found # <<>> /\ t - last_update.iso <= FRESH_SECONDS
         IN  create_response(200,
                 [status |-> Str(IF data_fresh THEN "healthy" ELSE "degraded"),
                  timestamp |-> Iso(t),
                  location |-> LOCATION,
                  database |-> [status |-> Str("connected"), table |-> Str("weather-data")],
                  data |-> [last_update |-> last_update, is_fresh |-> Bool(data_fresh)],
                  version |-> Str("1.0.0")])

\* get_health_status called at time t
get_health_status(reply, items, t) ==
    IF reply # "Items"
    THEN create_response(503,
             [status |-> Str("unhealthy"), error |-> Str("exception"), timestamp |-> Iso(t)])
    ELSE LET found       == QueryLatest(items)
             last_update == IF found = <<>> THEN None ELSE Get(found[1], "timestamp")
             data_fresh  == found # <<>> /\ t - last_update.iso < FRESH_SECONDS
         IN  create_response(200,
                 [status |-> Str(IF data_fresh THEN "healthy" ELSE "degraded"),
                  timestamp |-> Iso(t),
                  location |-> LOCATION,
                  database |-> [status |-> Str("connected"), table |-> Str("weather-data")],
                  data |-> [last_update |-> last_update, is_fresh |-> Bool(data_fresh)],
                  version |-> Str("1.0.0")])

\* int(text) of the texts of the model: the number, or a ValueError for a text
\* that is no integer literal
IntLiterals ==
    ("0" :> 0) @@ ("1" :> 1) @@ ("24" :> 24) @@ ("168" :> 168) @@ ("169" :> 169)
    @@ ("-1" :> -1)

HoursTexts == DOMAIN IntLiterals \cup {"abc", ""}

\* queryStringParameters of an event: null, without hours, or with a text
QueryParams == {None, EmptyDict} \cup {[hours |-> Str(x)] : x \in HoursTexts}

\* int(query_params.get('hours', 24)) after "or {}"
HoursParam(event) ==
    LET query_params == IF Truthy(event.queryStringParameters)
                        THEN event.queryStringParameters ELSE EmptyDict
    IN  IF "hours" \notin DOMAIN query_params THEN Return(24)
        ELSE IF query_params["hours"].str \in DOMAIN IntLiterals
        THEN Return(IntLiterals[query_params["hours"].str])
        ELSE Raise("ValueError")

MAX_HOURS == 168

Min(a, b) == IF a < b THEN a ELSE b

\* the route lambda_handler takes for an event
Route(event) ==
    IF event.httpMethod = "OPTIONS" THEN "options"
    ELSE IF event.path = "/weather/current" THEN "current"
    ELSE IF event.path = "/weather/history" THEN "history"
    ELSE IF event.path = "/weather/sources" THEN "sources"
    ELSE IF event.path = "/health" THEN "health"
    ELSE "unknown"

\* faulty variant: the hours are passed on as given
HistoryHoursUnclamped(event) ==
    IF Route(event) = "history" /\ ~Raised(HoursParam(event))
    THEN Cnt(HoursParam(event).ret)
    ELSE NotCalled

\* the hours lambda_handler calls get_historical_weather with, if it does
HistoryHours(event) ==
    IF Route(event) = "history" /\ ~Raised(HoursParam(event))
    THEN Cnt(Min(HoursParam(event).ret, MAX_HOURS))
    ELSE NotCalled

\* lambda_handler of the API, called at time t: the response, or the exception
\* that leaves it
api_lambda_handler(event, reply, items, t) ==
    IF Route(event) = "options" THEN Return(create_response(200, EmptyDict))
    ELSE IF Route(event) = "current" THEN Return(get_current_weather(reply, items))
    ELSE IF Route(event) = "history"
        THEN IF Raised(HoursParam(event)) THEN HoursParam(event)
             ELSE Return(get_historical_weather(HistoryHours(event).cnt, reply, items, t))
    ELSE IF Route(event) = "sources" THEN Return(get_data_sources)
    ELSE IF Route(event) = "health" THEN Return(get_health_status(reply, items, t))
    ELSE Return(create_response(404,
             [error |-> Str("Not found"),
              message |-> Str("Path " \o event.path \o " not found"),
              available_endpoints |->
                  Lst(<<Str("/weather/current"), Str("/weather/history?hours=24"),
                        Str("/weather/sources"), Str("/health")>>)]))

\* the routes whose handler queries the table
Querying == {"current", "history", "health"}

\* lambda_handler of the API handles the event ev; reply is what the store
\* does if it is queried
Serve(ev, reply) ==
    /\ api_event' = ev
    /\ api_response' = api_lambda_handler(ev, reply, table, now)
    /\ hist_hours' = HistoryHours(ev)
    /\ store_reply' =
           IF Route(ev) \notin Querying \/ (Route(ev) = "history" /\ HistoryHours(ev) = NotCalled)
           THEN "none"
           ELSE IF Route(ev) = "history" THEN BetweenReply(reply, HistoryHours(ev).cnt)
           ELSE reply
    /\ seen_table' = table
    /\ asked_at' = now
    /\ seen_response' = response

Event(method, path, params) ==
    [httpMethod |-> method, path |-> path, queryStringParameters |-> params]

RequestOptions ==
    /\ \E path \in {"/weather/current", "/"} : Serve(Event("OPTIONS", path, None), "Items")
    /\ UNCHANGED <<fvars, cvars>>

\* faulty variant: the request removes the records it read
RequestCurrentPurging ==
    /\ \E reply \in StoreReplies : Serve(Event("GET", "/weather/current", None), reply)
    /\ table' = {i \in table : i.location # LOCATION}
    /\ UNCHANGED <<fvars, attempts, now, secret, pc, api_keys, clients, next_client, all_data,
                   aggregated_data, quality_score, exc, response, fetched, answered, calls,
                   table_before, cycles>>

RequestCurrent ==
    /\ \E reply \in StoreReplies : Serve(Event("GET", "/weather/current", None), reply)
    /\ UNCHANGED <<fvars, cvars>>

RequestHistory ==
    /\ \E reply \in StoreReplies, params \in QueryParams :
           Serve(Event("GET", "/weather/history", params), reply)
    /\ UNCHANGED <<fvars, cvars>>

RequestSources ==
    /\ Serve(Event("GET", "/weather/sources", None), "Items")
    /\ UNCHANGED <<fvars, cvars>>

RequestHealth ==
    /\ \E reply \in StoreReplies : Serve(Event("GET", "/health", None), reply)
    /\ UNCHANGED <<fvars, cvars>>

RequestUnknown ==
    /\ \E path \in {"/", "/weather"} : Serve(Event("GET", path, None), "Items")
    /\ UNCHANGED <<fvars, cvars>>

\* a request to the API
Request ==
    \/ RequestOptions
    \/ RequestCurrent
    \/ RequestHistory
    \/ RequestSources
    \/ RequestHealth
    \/ RequestUnknown

\* Readings of a cycle in which one source answered: freezing weather without
\* pressure, and a Reading with humidity 0
ReadingFreezing ==
    [source |-> Str("openmeteo"), temperature |-> Num(0), humidity |-> Num(50000),
     pressure |-> None, weather |-> Str("Snow")]

ReadingDry ==
    [source |-> Str("openmeteo"), temperature |-> Num(25210), humidity |-> Num(0),
     pressure |-> Num(1013000), weather |-> Str("Clear")]

StoredReadings == {Reading("openmeteo"), ReadingFreezing, ReadingDry}

\* the item a cycle at time t stores when r is the one Reading it fetched
StoredItem(r, t) ==
    Item(aggregate_weather_data(<<r>>, t), calculate_data_quality_score(<<r>>), t)

\* the ages, in seconds, of the items of the table when the requests are made
Ages == {0, 1799, 1800, 3600, 3601, 86400, 604800, 604801}

MaxItems == 2

\* the tables of at most MaxItems items of distinct ages
ApiTables ==
    {{StoredItem(f[a], 0 - a) : a \in DOMAIN f} :
        f \in UNION {[S -> StoredReadings] :
                         S \in {T \in SUBSET Ages : Cardinality(T) <= MaxItems}}}

\* the read path alone: requests on a table that cycles of the past filled
ApiInit ==
    /\ data_points = <<>>
    /\ result = NotCalled
    /\ score = NotCalled
    /\ fpc = "off"
    /\ result_again = NotCalled
    /\ score_again = NotCalled
    /\ now = 0
    /\ table \in ApiTables
    /\ secret = EmptyDict
    /\ pc = "off"
    /\ api_keys = EmptyDict
    /\ clients = <<>>
    /\ next_client = 1
    /\ all_data = <<>>
    /\ aggregated_data = NotCalled
    /\ quality_score = NotCalled
    /\ exc = ""
    /\ response = NotCalled
    /\ fetched = [a \in Adapters |-> 0]
    /\ attempts = [a \in Adapters |-> 0]
    /\ answered = {}
    /\ calls = NoCalls
    /\ table_before = table
    /\ cycles = 0
    /\ NoRequest

\* the first request of a behaviour
ApiNext ==
    \/ api_event = NotCalled /\ RequestOptions
    \/ api_event = NotCalled /\ RequestCurrent
    \/ api_event = NotCalled /\ RequestHistory
    \/ api_event = NotCalled /\ RequestSources
    \/ api_event = NotCalled /\ RequestHealth
    \/ api_event = NotCalled /\ RequestUnknown

ApiSpec == ApiInit /\ [][ApiNext]_vars

\* the collector, with the keyless adapter alone, and a request to the API at
\* any point of its cycles; a request after another one would replace what is
\* recorded of the first and reach no other state
SysInit == Init /\ secret = EmptyDict

SysNext == Next \/ ApiNext

SysSpec == SysInit /\ [][SysNext]_vars

----------------------------------------------------------------------------
(* Properties of aggregate_weather_data and calculate_data_quality_score *)

Aggregated == fpc # "aggregate"
Scored == fpc = "called"

\* the input Readings whose value for field f is not None
NonAbsent(f) ==
    {i \in DOMAIN data_points : data_points[i] # None /\ Get(data_points[i], f) # None}

\* the weather value of every entry of the input list
WeatherAt(i) == Get(data_points[i], "weather")
Occurrences(w) == Cardinality({i \in DOMAIN data_points : WeatherAt(i) = w})
FirstOccurrence(w) ==
    CHOOSE i \in DOMAIN data_points :
        WeatherAt(i) = w /\ \A j \in 1..(i - 1) : WeatherAt(j) # w
LastOccurrence(w) ==
    CHOOSE i \in DOMAIN data_points :
        WeatherAt(i) = w /\ \A j \in (i + 1)..Len(data_points) : WeatherAt(j) # w
\* the non-empty weather strings of the input
WeatherStrings ==
    {WeatherAt(i) : i \in DOMAIN data_points} \ {None, Str("")}
\* those of maximal count
Tied == {w \in WeatherStrings : \A v \in WeatherStrings : Occurrences(v) <= Occurrences(w)}
WeatherList == [i \in DOMAIN data_points |-> WeatherAt(i)]

\* C1: for every numeric field whose derived keys are in the record,
\* min <= avg <= max, and count is the number of input Readings whose value
\* for the field is not None.  The code rounds the float mean and the float
\* minimum separately: three Readings of 0.045 have the minimum 0.045, which
\* as a float lies below the decimal and rounds to 0.04, and the mean
\* (0.045 + 0.045 + 0.045) / 3, which comes out one place above it and rounds
\* to 0.05.
C1_MinAvgMaxCount ==
    Aggregated =>
        \A f \in Fields :
            (f \o "_avg") \in DOMAIN result =>
                /\ result[f \o "_min"].num <= result[f \o "_avg"].num
                /\ result[f \o "_avg"].num <= result[f \o "_max"].num
                /\ result[f \o "_count"] = Cnt(Cardinality(NonAbsent(f)))

\* C2: the four derived keys of a field are all absent when no Reading
\* supplies the field, and all present when at least one does, a supplied 0
\* included.
C2_KeysIffSupplied ==
    Aggregated =>
        \A f \in Fields :
            LET keys == {f \o "_avg", f \o "_min", f \o "_max", f \o "_count"}
            IN  /\ NonAbsent(f) = {} => keys \cap DOMAIN result = {}
                /\ NonAbsent(f) # {} => keys \subseteq DOMAIN result

\* one field is supplied only as 0 and has its keys, another field is supplied
\* by no Reading and has none
C2_Witness ==
    /\ Aggregated
    /\ Len(data_points) >= 2
    /\ \E f \in Fields :
        /\ NonAbsent(f) # {}
        /\ \A i \in NonAbsent(f) : data_points[i][f] = Num(0)
        /\ \E i \in DOMAIN data_points : f \in DOMAIN data_points[i] /\ data_points[i][f] = None
        /\ result[f \o "_count"] = Cnt(Cardinality(NonAbsent(f)))
    /\ \E g \in Fields : NonAbsent(g) = {} /\ (g \o "_avg") \notin DOMAIN result

\* C3: weather_consensus is a non-empty weather string of the input whose count
\* is maximal, and among the values of maximal count it is the one that occurs
\* first in the input.
C3_ConsensusFirstOccurring ==
    (Aggregated /\ "weather_consensus" \in DOMAIN result) =>
        LET w == result["weather_consensus"]
        IN  /\ w \in WeatherStrings
            /\ \A v \in WeatherStrings : Occurrences(v) <= Occurrences(w)
            /\ \A v \in WeatherStrings \ {w} :
                   Occurrences(v) = Occurrences(w) => FirstOccurrence(w) < FirstOccurrence(v)

C3_Witness ==
    /\ Aggregated
    /\ WeatherList = <<Str("Rain"), Str("Cloudy"), Str("Cloudy"), Str("Rain")>>
    /\ result["weather_consensus"] = Str("Rain")

\* C4 as claimed: the consensus is the value of maximal count that reaches that
\* count first, that is, whose last occurrence comes earliest.
C4_FirstToReachMax ==
    (Aggregated /\ "weather_consensus" \in DOMAIN result) =>
        /\ result["weather_consensus"] \in Tied
        /\ \A v \in Tied \ {result["weather_consensus"]} :
               LastOccurrence(result["weather_consensus"]) < LastOccurrence(v)

\* C4 as amended: on a tie the consensus is the tied value whose first
\* occurrence comes earliest; for [Cloudy, Rain, Cloudy, Rain] it is Cloudy, and
\* it is the value that reaches the maximal count first whenever that value is
\* also the first of the tied values to occur.
C4_TieFirstOccurrence ==
    (Aggregated /\ "weather_consensus" \in DOMAIN result) =>
        /\ WeatherList = <<Str("Cloudy"), Str("Rain"), Str("Cloudy"), Str("Rain")>>
               => result["weather_consensus"] = Str("Cloudy")
        /\ \E w \in Tied :
               /\ \A v \in Tied \ {w} : FirstOccurrence(w) < FirstOccurrence(v)
               /\ result["weather_consensus"] = w
        /\ \A w \in Tied :
               (\A v \in Tied \ {w} :
                    LastOccurrence(w) < LastOccurrence(v)
                    /\ FirstOccurrence(w) < FirstOccurrence(v))
               => result["weather_consensus"] = w

C4_Witness ==
    /\ Aggregated
    /\ WeatherList = <<Str("Cloudy"), Str("Rain"), Str("Cloudy"), Str("Rain")>>
    /\ Cardinality(Tied) = 2
    /\ result["weather_consensus"] = Str("Cloudy")

\* C5: sources holds one entry per input Reading, the Reading's source id, in
\* input order.
C5_SourcesInInputOrder ==
    (Aggregated /\ result # EmptyDict) =>
        LET readings == {i \in DOMAIN data_points : data_points[i] # None}
            rank(i)  == Cardinality({j \in readings : j <= i})
            sources  == result["sources"].list
        IN  /\ Len(sources) = Cardinality(readings)
            /\ \A i \in readings : sources[rank(i)] = Get(data_points[i], "source")

\* the source ids b, a, b: neither sorted nor free of duplicates
C5_Witness ==
    /\ Aggregated
    /\ data_points = <<[source |-> Str("b")], [source |-> Str("a")], [source |-> Str("b")]>>
    /\ result["sources"] = Lst(<<Str("b"), Str("a"), Str("b")>>)

\* C6: the score of the empty list is 0.0, of one Reading whose values are all
\* None 0.0, of one Reading whose values are all present 1.0.
C6_ScoreEndpoints ==
    Scored =>
        /\ data_points = <<>> => score = Num(0)
        /\ (/\ Len(data_points) = 1
            /\ data_points[1] \notin {None, EmptyDict}
            /\ \A k \in DOMAIN data_points[1] : data_points[1][k] = None)
               => score = Num(0)
        /\ (/\ Len(data_points) = 1
            /\ data_points[1] \notin {None, EmptyDict}
            /\ \A k \in DOMAIN data_points[1] : data_points[1][k] # None)
               => score = Num(1000)

C6_Witness == Scored /\ data_points = <<ReadingNone5>> /\ score = Num(0)

\* the keys of a Reading that hold a value, with their values
Populated(r) == [k \in {k \in DOMAIN r : r[k] # None} |-> r[k]]
IsReading(e) == e \notin {None, EmptyDict}

\* C7 as claimed: the denominator of a Reading's fraction does not depend on the
\* keys the Reading carries, so Readings with the same populated fields score
\* the same.
C7_SameFractionForSamePopulated ==
    (Scored /\ Len(data_points) = 1 /\ IsReading(data_points[1])) =>
        \A e \in ScoreEntries :
            (IsReading(e) /\ Populated(e) = Populated(data_points[1]))
                => calculate_data_quality_score(<<e>>) = score

RECURSIVE Product(_, _)
Product(g, S) ==
    IF S = {} THEN 1 ELSE LET x == CHOOSE x \in S : TRUE IN g[x] * Product(g, S \ {x})
RECURSIVE Sum(_, _)
Sum(g, S) ==
    IF S = {} THEN 0 ELSE LET x == CHOOSE x \in S : TRUE IN g[x] + Sum(g, S \ {x})

\* C7 as amended: a Reading's fraction is its number of values that are not
\* None over the number of keys that Reading carries, so a None-valued key
\* lowers the fraction and a structurally missing key does not; the score of a
\* list of Readings is the mean of the fractions rounded to 2 decimals (5/5 and
\* 2/5 of two five-key Readings give 0.7).
C7_FractionOverOwnKeys ==
    (Scored /\ data_points # <<>> /\ \A i \in DOMAIN data_points : IsReading(data_points[i])) =>
        LET I     == DOMAIN data_points
            keys  == [i \in I |-> Cardinality(DOMAIN data_points[i])]
            held  == [i \in I |-> Cardinality(DOMAIN Populated(data_points[i]))]
            D     == Product(keys, I)
            parts == [i \in I |-> held[i] * (D \div keys[i])]
        IN  /\ score = Num(Round2(1000 * Sum(parts, I), D * Len(data_points)))
            /\ Len(data_points) = 1 => score = Num(Round2(1000 * held[1], keys[1]))
            /\ data_points = <<ReadingFull5, ReadingTwo5>> => score = Num(700)

\* the same two populated fields, in a five-key and in a two-key Reading
C7_Witness ==
    /\ Scored
    /\ data_points = <<ReadingTwo5, ReadingTwo2>>
    /\ calculate_data_quality_score(<<ReadingTwo5>>) = Num(400)
    /\ calculate_data_quality_score(<<ReadingTwo2>>) = Num(1000)
    /\ score = Num(700)

\* C8: the empty list and a list of null entries give the empty record, and a
\* record that is returned never has an empty sources list.
C8_EmptyRecord ==
    Aggregated =>
        /\ (\A i \in DOMAIN data_points : data_points[i] = None) => result = EmptyDict
        /\ result # EmptyDict =>
               "sources" \in DOMAIN result /\ result["sources"] # Lst(<<>>)

C8_Witness == Aggregated /\ data_points = <<None, None>> /\ result = EmptyDict

----------------------------------------------------------------------------
(* Properties of the collection cycle *)

\* lambda_handler has returned from an invocation
Returned == pc = "idle" /\ response # NotCalled

\* the fetch loop of the running invocation is over
LoopDone == pc \in {"score", "store", "return"} \/ (pc = "fetch" /\ next_client > Len(clients))

Configured == {clients[i] : i \in DOMAIN clients}

\* C9: in a cycle in which no adapter returns a Reading, nothing is written to
\* the table, aggregate and score are not called, and lambda_handler returns
\* statusCode 500 with the error 'Failed to collect weather data'.
C9_NoDataNoWrite ==
    (pc # "off" /\ all_data = <<>>) =>
        /\ table = table_before
        /\ calls = NoCalls
        /\ aggregated_data = NotCalled
        /\ quality_score = NotCalled
        /\ Returned =>
               /\ response.statusCode = 500
               /\ response.body.error = "Failed to collect weather data"

\* two adapters were invoked and none returned a Reading, the table held an item
C9_Witness ==
    /\ Returned
    /\ Len(clients) = 2
    /\ \A a \in Configured : fetched[a] = 1
    /\ all_data = <<>>
    /\ table # {}
    /\ response.statusCode = 500
    /\ response.body.message = "No weather data could be fetched from any API"

\* C10: whichever configured adapters fail, every configured adapter is invoked
\* exactly once in the cycle, the Readings of those that answered are in
\* all_data, in the order of the clients, the failed ones add no entry, and
\* this list is the one given to aggregate and score.
C10_FailuresIsolated ==
    /\ \A a \in Adapters : fetched[a] <= 1
    /\ (LoopDone \/ (Returned /\ clients # <<>>)) =>
           /\ \A a \in Configured : fetched[a] = 1
           /\ \A a \in Adapters \ Configured : fetched[a] = 0
           /\ LET expected == SelectSeq(clients, LAMBDA a : a \in answered)
              IN  /\ Len(all_data) = Len(expected)
                  /\ \A i \in DOMAIN expected : all_data[i] = Reading(expected[i])
                  /\ aggregated_data # NotCalled =>
                         /\ aggregated_data["raw_data"] = Lst(all_data)
                         /\ aggregated_data["sources"] =
                                Lst([i \in DOMAIN expected |-> Str(expected[i])])
                  /\ quality_score # NotCalled =>
                         quality_score = calculate_data_quality_score(
                             [i \in DOMAIN expected |-> Reading(expected[i])])

\* five adapters configured, the first and the fourth fail, three Readings stored
C10_Witness ==
    /\ Returned
    /\ response.statusCode = 200
    /\ Len(clients) = 5
    /\ answered = {"weatherapi", "visualcrossing", "tomorrow_io"}
    /\ \A a \in Adapters : fetched[a] = 1
    /\ Len(all_data) = 3
    /\ response.body.sources_count = 3

\* C11: in every cycle the OpenMeteo adapter's fetch is attempted, whatever
\* credential retrieval did (the secret, a ClientError, any other failure), and
\* a keyed adapter is attempted only if the secret holds its key.  The code
\* catches ClientError alone in get_api_keys: any other failure of the
\* retrieval goes to lambda_handler's except clause before a client exists.
C11_OpenMeteoAlwaysAttempted ==
    Returned =>
        /\ fetched["openmeteo"] = 1
        /\ \A a \in KeyedAdapters : fetched[a] > 0 => Truthy(Get(secret, a))

\* the put_item call of the invocation wrote its item
Stored == Returned /\ response.statusCode = 200

\* the items store_in_dynamodb can build from the invocation's record and score
CycleItems == {Item(aggregated_data, quality_score, t) : t \in 0..MaxTime}

\* C12: a cycle in which an adapter succeeded makes exactly one put_item call,
\* no cycle makes more than one, and what the call writes is one item that
\* carries the location, the timestamp, the aggregated record and the quality
\* score together; the table differs from the one before the cycle by that
\* item alone.
C12_OneWriteOneItem ==
    /\ calls.put_item <= 1
    /\ (Returned /\ all_data # <<>>) => calls.put_item = 1
    /\ Stored =>
           \E item \in CycleItems :
               /\ table = put_item(table_before, item)
               /\ item.location = LOCATION
               /\ item.timestamp \in {Iso(t) : t \in 0..MaxTime}
               /\ item.weather_data = convert_value(aggregated_data)
               /\ item.data_quality_score = Dec(quality_score.num)
    /\ (pc # "off" /\ ~Stored /\ pc # "return") => table = table_before

\* two adapters answered, one item was added to a table that held one
C12_Witness ==
    /\ Stored
    /\ Len(all_data) = 2
    /\ calls.put_item = 1
    /\ Cardinality(table_before) = 1
    /\ Cardinality(table) = 2

\* C13: when put_item fails after the aggregation, store_in_dynamodb raises the
\* failure again and lambda_handler returns statusCode 500; a cycle that
\* returns 200 has its item in the table.
C13_WriteFailureIsReported ==
    /\ (pc = "except" /\ aggregated_data # NotCalled) => exc = "put_item"
    /\ (Returned /\ exc = "put_item") =>
           /\ response.statusCode = 500
           /\ response.body.error = "Failed to collect weather data"
           /\ table = table_before
    /\ (Returned /\ response.statusCode = 200) =>
           /\ exc = ""
           /\ \E item \in CycleItems : item \in table

\* three adapters answered, the record was aggregated and scored, the write failed
C13_Witness ==
    /\ Returned
    /\ Len(all_data) = 3
    /\ aggregated_data # NotCalled
    /\ quality_score # NotCalled
    /\ exc = "put_item"
    /\ response.statusCode = 500

----------------------------------------------------------------------------
(* Properties of the API *)

\* the last request took the route r and lambda_handler returned a response
Answered(r) ==
    api_event # NotCalled /\ Route(api_event) = r /\ ~Raised(api_response)

\* the records of the location in the table the last request saw
Records == {i \in seen_table : i.location = LOCATION}

Newest(items) == CHOOSE i \in items : \A j \in items : j.timestamp.iso <= i.timestamp.iso

\* C14: after any cycles of the collector, get_current_weather, when its query
\* is answered, returns 404 exactly when the table holds no record of the
\* location and otherwise the record of the greatest timestamp; the item a
\* successful cycle wrote is the one of the greatest timestamp in the table.
C14_LatestOrNotFound ==
    /\ (Answered("current") /\ store_reply = "Items") =>
           /\ api_response.ret.statusCode = 404 <=> Records = {}
           /\ api_response.ret.statusCode \in {200, 404}
           /\ Records # {} =>
                  LET item == Newest(Records)
                      body == api_response.ret.body
                  IN  /\ body.timestamp = item.timestamp
                      /\ body.location = LOCATION
                      /\ body.data_quality_score = Num(item.data_quality_score.dec)
                      /\ body.sources = item.weather_data["sources"]
                      /\ body.current_conditions.temperature.value =
                             json_dumps(item.weather_data["temperature_avg"])
    /\ (Stored /\ pc = "idle") =>
           \E item \in CycleItems :
               item \in table /\ \A j \in table : j.timestamp.iso <= item.timestamp.iso

\* a cycle added its item to a table that held one, and the request made after
\* it got the item of the cycle
C14_Witness ==
    /\ Answered("current")
    /\ Stored
    /\ Cardinality(table_before) = 1
    /\ Cardinality(seen_table) = 2
    /\ seen_table = table
    /\ api_response.ret.statusCode = 200
    /\ api_response.ret.body.timestamp = Iso(1)
    /\ Item(aggregated_data, quality_score, 1) \in table

\* the records the query of the last request selects: all of them for
\* /weather/current, those of the window for /weather/history
InWindow ==
    {i \in Records :
        /\ asked_at - hist_hours.cnt * SECONDS_PER_HOUR <= i.timestamp.iso
        /\ i.timestamp.iso <= asked_at}

Selected == IF Route(api_event) = "history" THEN InWindow ELSE Records

\* get_current_weather or get_historical_weather ran in the last request
ReadRan ==
    /\ api_event # NotCalled
    /\ Route(api_event) \in {"current", "history"}
    /\ ~Raised(api_response)
    /\ store_reply # "none"

\* C15 as claimed: 404 is returned only for a query that succeeds with no
\* item, and every failure of the query gives 500 with the error 'Database
\* error'.
C15_FailureIsDatabaseError ==
    ReadRan =>
        /\ api_response.ret.statusCode = 404 <=> (store_reply = "Items" /\ Selected = {})
        /\ store_reply # "Items" =>
               /\ api_response.ret.statusCode = 500
               /\ api_response.ret.body.error = Str("Database error")

\* C15 as amended: 404 is returned exactly for a query that succeeds with no
\* item; a query that fails gives 500, with the error 'Database error' when the
\* failure is a ClientError and 'Internal server error' when it is any other
\* exception; a query that succeeds with items gives 200.
C15_FailureIsNeverNotFound ==
    ReadRan =>
        /\ api_response.ret.statusCode = 404 <=> (store_reply = "Items" /\ Selected = {})
        /\ store_reply = "ClientError" =>
               /\ api_response.ret.statusCode = 500
               /\ api_response.ret.body.error = Str("Database error")
        /\ store_reply = "Exception" =>
               /\ api_response.ret.statusCode = 500
               /\ api_response.ret.body.error = Str("Internal server error")
        /\ (store_reply = "Items" /\ Selected # {}) => api_response.ret.statusCode = 200

\* the query of /weather/history failed with an exception that is no
\* ClientError while the table held records
C15_Witness ==
    /\ ReadRan
    /\ Route(api_event) = "history"
    /\ store_reply = "Exception"
    /\ Records # {}
    /\ api_response.ret.statusCode = 500
    /\ api_response.ret.body.error = Str("Internal server error")

\* get_historical_weather ran in the last request and its query was answered
HistoryRan == Answered("history") /\ store_reply = "Items"

\* the history list of a 200 response
History == api_response.ret.body.history.list

TrackedFields == {"temperature", "humidity", "pressure"}

\* the records of the window that have the _avg value of a field
Having(field) == {r \in InWindow : Get(r.weather_data, field \o "_avg") # None}

\* C18: for each of temperature, humidity and pressure, the statistics of a 200
\* response are those of the _avg values of every record of the window that
\* has the field, a value of 0 included: avg is their mean rounded to 2
\* decimals, min and max their least and greatest, and the three are null only
\* when no record of the window has the field.
C18_StatisticsOverEveryValue ==
    (HistoryRan /\ api_response.ret.statusCode = 200) =>
        \A field \in TrackedFields :
            LET having == Having(field)
                value  == [r \in having |-> r.weather_data[field \o "_avg"].dec]
                stats  == api_response.ret.body.statistics[field]
            IN  IF having = {}
                THEN stats = [avg |-> None, min |-> None, max |-> None]
                ELSE /\ stats.avg =
                            json_dumps([dec |-> Round2(Sum(value, having), Cardinality(having))])
                     /\ \E r \in having :
                            /\ stats.min = json_dumps([dec |-> value[r]])
                            /\ \A o \in having : value[r] <= value[o]
                     /\ \E r \in having :
                            /\ stats.max = json_dumps([dec |-> value[r]])
                            /\ \A o \in having : value[r] >= value[o]

\* the last request was one of /weather/history
HistoryAsked == api_event # NotCalled /\ Route(api_event) = "history"

\* the text of the hours parameter of the last request, None when it has none
HoursText ==
    IF api_event.queryStringParameters \in {None, EmptyDict}
    THEN None
    ELSE api_event.queryStringParameters["hours"]

\* C19: for a /weather/history request lambda_handler calls
\* get_historical_weather with the least of 168 and the integer the hours
\* parameter gives, 24 when the request has none; get_historical_weather is
\* never called with more than 168 and uses what it is given as it is, in the
\* bounds of the query and in period.hours of the answer.
C19_HoursClamped ==
    HistoryAsked =>
        /\ HoursText = None => hist_hours = Cnt(24)
        /\ (HoursText # None /\ HoursText.str \in DOMAIN IntLiterals) =>
               hist_hours = Cnt(IF IntLiterals[HoursText.str] < 168
                                THEN IntLiterals[HoursText.str] ELSE 168)
        /\ hist_hours # NotCalled => hist_hours.cnt <= 168
        /\ (HistoryRan /\ api_response.ret.statusCode = 200) =>
               /\ api_response.ret.body.period.hours = hist_hours
               /\ api_response.ret.body.period.start =
                      Iso(asked_at - hist_hours.cnt * SECONDS_PER_HOUR)
               /\ api_response.ret.body.period.end = Iso(asked_at)

\* 169 hours were asked of a table with a record one second older than 168
\* hours: the window was one of 168 hours and the record is not in the answer
C19_Witness ==
    /\ HistoryRan
    /\ HoursText = Str("169")
    /\ hist_hours = Cnt(168)
    /\ \E r \in Records : r.timestamp.iso = asked_at - 168 * SECONDS_PER_HOUR - 1
    /\ api_response.ret.statusCode = 200
    /\ api_response.ret.body.period.hours = Cnt(168)
    /\ Len(History) = 1

\* C20: a request to the API, whatever its route and whatever the store
\* replies, leaves the table as it is, at any point between and within the
\* cycles of the collector; the table changes only in a step in which
\* store_in_dynamodb calls put_item.
C20_OnlyCollectorWrites ==
    [][/\ api_event' # api_event => table' = table
       /\ table' # table =>
              /\ pc = "store"
              /\ calls'.put_item = calls.put_item + 1
              /\ avars' = avars]_vars

\* a request for the history made after a cycle wrote its item: the table the
\* request saw, with the item of the cycle, is the table that is there after it
C20_Witness ==
    /\ Answered("history")
    /\ Stored
    /\ table # table_before
    /\ Cardinality(table) = 2
    /\ seen_table = table
    /\ api_response.ret.statusCode = 200

----------------------------------------------------------------------------
(* Further properties of the two functions *)

\* the two functions were called twice on data_points
CalledTwice == fpc = "again"

----------------------------------------------------------------------------
(* Further properties of the collection cycle *)

\* this step is the put_item of store_in_dynamodb and it succeeded
Wrote == pc = "store" /\ pc' = "return"

\* C22: the item a write puts in the table has a ttl of the clock reading of
\* the write, in whole seconds, plus 2,592,000 seconds, and no step of the
\* collector takes the key of a stored item out of the table.
C22_ExpiryThirtyDays ==
    [][/\ Wrote =>
              \E i \in table' :
                  /\ i.location = LOCATION
                  /\ i.timestamp = Iso(now)
                  /\ i.weather_data = convert_value(aggregated_data)
                  /\ i.ttl = now + 2592000
       /\ \A i \in table :
              \E j \in table' : j.location = i.location /\ j.timestamp = i.timestamp]_vars

\* a write made one second after the aggregation, on a table that held an item
C22_Witness ==
    /\ pc = "return"
    /\ now = 1
    /\ aggregated_data["timestamp"] = Iso(0)
    /\ Cardinality(table_before) = 1
    /\ Cardinality(table) = 2
    /\ \E i \in table : i.timestamp = Iso(1) /\ i.ttl = 2592001

\* C23: in a series of cycles the timestamp of the record a cycle writes is
\* greater than the timestamp of every record of the location that an earlier
\* cycle wrote.
C23_TimestampsIncrease ==
    [][Wrote =>
           /\ \E i \in table' \ table : i.location = LOCATION /\ i.timestamp = Iso(now)
           /\ \A i \in table' \ table, j \in table :
                  j.location = i.location => j.timestamp.iso < i.timestamp.iso]_vars

\* the second cycle of a series wrote its record on a table that held the
\* record of the first and an older one
C23_Witness ==
    /\ Stored
    /\ cycles = 2
    /\ Cardinality(table_before) = 2
    /\ Cardinality(table) = 3
    /\ \E i \in table \ table_before :
           \A j \in table_before : j.timestamp.iso < i.timestamp.iso

----------------------------------------------------------------------------
(* Further properties of the API *)

\* get_current_weather or get_historical_weather was called in the last request
ReadCalled ==
    /\ api_event # NotCalled
    /\ Route(api_event) \in {"current", "history"}
    /\ store_reply # "none"

\* the last request was made after a cycle of the collector had failed and
\* before another one started
AfterFailure == seen_response # NotCalled /\ seen_response.statusCode = 500

\* the answer of the last request holds the records of the set S that its
\* query selects: the newest for /weather/current, all of the window for
\* /weather/history
AnswersFrom(S) ==
    /\ api_response.ret.statusCode = 404 <=> Selected = {}
    /\ api_response.ret.statusCode \in {200, 404}
    /\ Selected \subseteq S
    /\ (Selected # {} /\ Route(api_event) = "current") =>
           api_response.ret.body.timestamp = Newest(Selected).timestamp
    /\ (Selected # {} /\ Route(api_event) = "history") =>
           {History[i].timestamp : i \in DOMAIN History} = {r.timestamp : r \in Selected}

\* C24 as claimed: a call of get_current_weather or get_historical_weather
\* made after a failed cycle does not raise and returns 404 or, with 200, the
\* records stored before that cycle; it never returns an error response.
C24_NoErrorAfterFailure ==
    (ReadCalled /\ AfterFailure) =>
        /\ ~Raised(api_response)
        /\ AnswersFrom(table_before)

\* C24 as amended: such a call does not raise; the failed cycle left the table
\* as it was, so when the store answers the query the call returns 404 or,
\* with 200, the records stored before that cycle, and when the query fails it
\* returns 500.
C24_StaleOrNotFoundIfStoreAnswers ==
    (ReadCalled /\ AfterFailure) =>
        /\ ~Raised(api_response)
        /\ seen_table = table_before
        /\ store_reply = "Items" => AnswersFrom(table_before)
        /\ store_reply # "Items" => api_response.ret.statusCode = 500

\* the write of a cycle failed on a table that held a record, and the request
\* for the current weather made after it got that record
C24_Witness ==
    /\ ReadCalled
    /\ AfterFailure
    /\ exc = "put_item"
    /\ Route(api_event) = "current"
    /\ store_reply = "Items"
    /\ Cardinality(table_before) = 1
    /\ api_response.ret.statusCode = 200
    /\ api_response.ret.body.timestamp = Iso(0)

\* the table the last request saw holds a record of the location whose
\* newest timestamp is less than 1800 seconds before the request
FreshRecord ==
    /\ Records # {}
    /\ asked_at - Newest(Records).timestamp.iso < 1800

\* C25: get_health_status answers 200 'healthy' with is_fresh true exactly
\* when the newest record of the location is less than 1800 seconds old, 200
\* 'degraded' with is_fresh false when it is 1800 seconds old or older or
\* when there is no record, and 503 'unhealthy' when the query fails.
C25_HealthyIffFresh ==
    Answered("health") =>
        LET body == api_response.ret.body
        IN  /\ store_reply # "Items" =>
                   /\ api_response.ret.statusCode = 503
                   /\ body.status = Str("unhealthy")
            /\ store_reply = "Items" =>
                   /\ api_response.ret.statusCode = 200
                   /\ FreshRecord =>
                          /\ body.status = Str("healthy")
                          /\ body.data.is_fresh = Bool(TRUE)
                   /\ ~FreshRecord =>
                          /\ body.status = Str("degraded")
                          /\ body.data.is_fresh = Bool(FALSE)
                   /\ body.data.last_update =
                          IF Records = {} THEN None ELSE Newest(Records).timestamp

\* the newest of two records is exactly 1800 seconds old: degraded
C25_Witness ==
    /\ Answered("health")
    /\ store_reply = "Items"
    /\ Cardinality(Records) = 2
    /\ asked_at - Newest(Records).timestamp.iso = 1800
    /\ api_response.ret.statusCode = 200
    /\ api_response.ret.body.status = Str("degraded")
    /\ api_response.ret.body.data.is_fresh = Bool(FALSE)

----------------------------------------------------------------------------
(* Further properties of calculate_data_quality_score *)

\* the entries of data_points that contribute a field: the Readings that hold
\* a value that is not None
Contributing ==
    {i \in DOMAIN data_points :
        IsReading(data_points[i]) /\ DOMAIN Populated(data_points[i]) # {}}

\* C26: a null entry, an empty Reading and a Reading whose values are all None
\* add nothing to the sum and count in the denominator: the score of a list
\* that is not empty is the sum of the fractions of the other entries over the
\* number of all entries, rounded to 2 decimals, and it is from 0 to 1.
C26_ZeroEntriesCount ==
    (Scored /\ data_points # <<>>) =>
        LET I     == Contributing
            keys  == [i \in I |-> Cardinality(DOMAIN data_points[i])]
            held  == [i \in I |-> Cardinality(DOMAIN Populated(data_points[i]))]
            D     == Product(keys, I)
            parts == [i \in I |-> held[i] * (D \div keys[i])]
        IN  /\ score = Num(Round2(1000 * Sum(parts, I), D * Len(data_points)))
            /\ 0 <= score.num /\ score.num <= 1000
            /\ I = {} => score = Num(0)

\* a full Reading, an empty one and one of None values alone: 1/3 gives 0.33
C26_Witness ==
    /\ Scored
    /\ data_points = <<ReadingFull5, EmptyDict, ReadingNone5>>
    /\ Contributing = {1}
    /\ score = Num(330)

----------------------------------------------------------------------------
(* Termination of the collection cycle *)

\* an invocation of lambda_handler is running
Running == pc # "idle"

\* no invocation is running and the last one returned 200 or 500
ReturnedResponse ==
    /\ pc = "idle"
    /\ response # NotCalled
    /\ response.statusCode \in {200, 500}

\* C27: every invocation of lambda_handler ends with a response of status 200
\* or 500, whatever the secret, the providers and the store do; the fetch of
\* an adapter makes at most 3 HTTP attempts, and no exception leaves the
\* handler.
C27_CycleTerminates ==
    /\ [](\A a \in Adapters :
             /\ attempts[a] <= MAX_RETRIES + 1
             /\ attempts[a] > 0 => \E i \in DOMAIN clients : clients[i] = a)
    /\ [](pc \in {"idle", "get_api_keys", "fetch", "score", "store", "return", "except"})
    /\ [](pc = "idle" => (cycles = 0 \/ ReturnedResponse))
    /\ Running ~> ReturnedResponse

\* Open-Meteo, the one client, failed on each of its 3 attempts, and the
\* invocation returned 500
C27_Witness ==
    /\ ReturnedResponse
    /\ response.statusCode = 500
    /\ clients = <<"openmeteo">>
    /\ attempts["openmeteo"] = 3
    /\ fetched["openmeteo"] = 1
    /\ all_data = <<>>

----------------------------------------------------------------------------
(* The timestamps of a cycle *)

\* the last invocation of lambda_handler returned 200
ReturnedOk ==
    /\ pc = "idle"
    /\ response # NotCalled
    /\ response.statusCode = 200

\* C28: a successful cycle has one timestamp: the key of the item it stored,
\* the timestamp of the record inside that item and the timestamp of the 200
\* response are equal.
C28_OneCycleTimestamp ==
    ReturnedOk =>
        \E i \in table :
            /\ i.location = LOCATION
            /\ i.timestamp = response.body.timestamp
            /\ i.weather_data["timestamp"] = response.body.timestamp

----------------------------------------------------------------------------
(* The store under collection *)

\* C29: a successful write adds exactly one record to the records of the
\* location and leaves every record of an earlier cycle in the table as it
\* was, also when the cycle obtains the clock reading of an earlier one.
C29_AppendOnly ==
    [][Wrote =>
          /\ Cardinality(table') = Cardinality(table) + 1
          /\ table \subseteq table']_vars

----------------------------------------------------------------------------
(* The responses of the API *)

\* C30: lambda_handler of the API answers every event with a response and
\* raises for none: the status is 200, 404, 500 or 503 and the response has
\* the CORS headers; OPTIONS gives 200 and no query of the store; an unknown
\* path gives 404 with available_endpoints; a /weather/history request gets a
\* response whatever the text of its hours parameter.
C30_AlwaysResponds ==
    api_event # NotCalled =>
        /\ ~Raised(api_response)
        /\ api_response.ret.statusCode \in {200, 404, 500, 503}
        /\ api_response.ret.headers.AllowOrigin = CORS_ORIGIN
        /\ api_response.ret.headers.AllowMethods = "GET,OPTIONS"
        /\ Route(api_event) = "options" =>
               /\ api_response.ret.statusCode = 200
               /\ store_reply = "none"
        /\ Route(api_event) = "unknown" =>
               /\ api_response.ret.statusCode = 404
               /\ "available_endpoints" \in DOMAIN api_response.ret.body

====
